---- MODULE Spec2Model ----
(***************************************************************************)
(* A model of streamRunnableUI (frontend/utils/server.tsx): one forward    *)
(* pass over the events of runnable.streamEvents, which builds the UI      *)
(* stream `ui`, the per-run text streams `callbacks`, the tool placeholder *)
(* and the promise `lastEvent`.  server.tsx holds two definitions of       *)
(* streamRunnableUI (lines 44-158 and lines 254-328); `impl` says which    *)
(* one an invocation runs.                                                 *)
(* Spec is one invocation; SpecPair is two invocations at the same time,   *)
(* kept in `pair`.  SpecGraph is the agent graph of ai/graph.ts,           *)
(* SpecCharts the event handler of app/charts/agent.tsx, SpecChat the      *)
(* Chat component and SpecFilters the functions of app/charts/filters.tsx. *)
(*                                                                         *)
(* JavaScript values are records tagged by `t`: undefined, null, objects   *)
(* and the streamables of ai/rsc.  Strings are TLA+ strings, arrays are    *)
(* sequences.  An event name such as on_chat_model_stream is kept as the   *)
(* sequence of its "_"-separated parts.                                    *)
(***************************************************************************)
EXTENDS Integers, Sequences, FiniteSets, TLC

VARIABLES impl, consumed, inv, pair, graph, filterGraph, chat, filters

vars == <<impl, consumed, inv, pair, graph, filterGraph, chat, filters>>

\* The parts of the repository that streamRunnableUI does not touch: the
\* agent graph, the chart event handler, the Chat component and a call of a
\* function of charts/filters.tsx.
others == <<graph, filterGraph, chat, filters>>

\* A part that takes no step in the specification at hand
Idle == [t |-> "idle"]

OthersIdle ==
  /\ graph = Idle
  /\ filterGraph = Idle
  /\ chat = Idle
  /\ filters = Idle

\* The longest source event sequence explored.
MaxEvents == 4

\* The longest source event sequence of each of two concurrent invocations.
MaxPairEvents == 2

\* The longest event sequence given to the chart event handler.
MaxChartEvents == 3

\* The most turns submitted to the Chat component.
MaxTurns == 2

\* The longest list of orders given to a function of charts/filters.tsx.
MaxOrders == 3

-----------------------------------------------------------------------------
\* JavaScript values

Undefined == [t |-> "undefined"]

Null == [t |-> "null"]

Truthy(v) ==
  /\ v.t \notin {"undefined", "null"}
  /\ ~(v.t = "string" /\ v.v = "")
  /\ ~(v.t = "number" /\ v.v = 0)
  /\ ~(v.t = "boolean" /\ v.v = FALSE)

\* typeof v === "object" (true of null as well)
TypeofObject(v) == v.t \in {"object", "null"}

\* rec.key, undefined when the key is absent
Get(rec, key) == IF key \in DOMAIN rec THEN rec[key] ELSE Undefined

Last(s) == s[Len(s)]

\* A JavaScript string
Str(v) == [t |-> "string", v |-> v]

\* A JavaScript number and a JavaScript boolean
Num(v) == [t |-> "number", v |-> v]

Bool(v) == [t |-> "boolean", v |-> v]

\* A JSX element <component {...props} />
Element(component, props) ==
  [t |-> "object", component |-> component, props |-> props]

-----------------------------------------------------------------------------
\* The tool-component map

ToolNames == {"github-repo", "invoice-parser", "weather-data"}

TOOL_COMPONENT_MAP ==
  [tool \in ToolNames |->
     CASE tool = "github-repo" ->
            [t |-> "object", loading |-> "GithubLoading", final |-> "Github"]
       [] tool = "invoice-parser" ->
            [t |-> "object", loading |-> "InvoiceLoading", final |-> "Invoice"]
       [] tool = "weather-data" ->
            [t |-> "object", loading |-> "CurrentWeatherLoading",
             final |-> "CurrentWeather"]]

\* TOOL_COMPONENT_MAP[toolCall.type]: undefined for a missing key
LookupTool(type) ==
  IF type \in DOMAIN TOOL_COMPONENT_MAP THEN TOOL_COMPONENT_MAP[type]
  ELSE Undefined

\* component.loading()
Loading(component) == Element(component.loading, Undefined)

\* component.final(toolData)
Final(component, toolData) == Element(component.final, toolData)

-----------------------------------------------------------------------------
\* The streamables of ai/rsc (createStreamableUI, createStreamableValue).
\* A streamable UI is a slot of the stream it was appended to; a streamable
\* value lives in `callbacks`.  Each throws when used after done().

CreateStreamableUI(initial) ==
  [t |-> "streamableUI", node |-> initial, closed |-> FALSE]

CreateStreamableValue == [t |-> "streamableValue", value |-> "", closed |-> FALSE]

\* <AIMessage value={textStream.value} />, the stream named by its run id
AIMessage(run_id) ==
  Element("AIMessage", [t |-> "streamableValue", run_id |-> run_id])

\* A slip: the failing pass replaces what the UI stream shows.
Throw_ClearsUi(s, error) ==
  [s EXCEPT !.pc = "threw", !.err = error, !.ui.slots = <<>>]

\* The pass stops with an exception; what it changed so far stays.
Throw(s, error) == [s EXCEPT !.pc = "threw", !.err = error]

\* ui.append(node)
UiAppend(s, node) ==
  IF s.ui.closed THEN Throw(s, ".append(): UI stream is already closed.")
  ELSE [s EXCEPT !.ui.slots = Append(@, node)]

\* ui.done()
UiDone(s) ==
  IF s.ui.closed THEN Throw(s, ".done(): UI stream is already closed.")
  ELSE [s EXCEPT !.ui.closed = TRUE, !.ui.doneCalls = @ + 1]

\* selectedToolUI.done(node), selectedToolUI being the slot numbered `slot`
ToolUiDone(s, slot, node) ==
  IF s.ui.slots[slot].closed
  THEN Throw(s, ".done(): UI stream is already closed.")
  ELSE [s EXCEPT !.ui.slots[slot].node = node, !.ui.slots[slot].closed = TRUE]

\* callbacks[run_id].append(text)
ValueAppend(s, run_id, text) ==
  IF s.callbacks[run_id].closed
  THEN Throw(s, ".append(): Value stream is already closed.")
  ELSE [s EXCEPT !.callbacks[run_id].value = @ \o text.v]

\* callbacks[run_id].done()
ValueDone(s, run_id) ==
  IF s.callbacks[run_id].closed
  THEN Throw(s, ".done(): Value stream is already closed.")
  ELSE [s EXCEPT !.callbacks[run_id].closed = TRUE]

\* A slip: no text stream is created for a run that has none.
AppendToRunStream_NoCreate(s, run_id, text) ==
  IF run_id \in DOMAIN s.callbacks THEN ValueAppend(s, run_id, text) ELSE s

\* The text stream of a run: created, shown in the UI and kept in callbacks
\* when callbacks has none for the run; then text is appended to it.
\*   if (!callbacks[run_id]) { textStream = createStreamableValue();
\*     ui.append(<AIMessage .../>); callbacks[run_id] = textStream; }
\*   if (callbacks[run_id]) callbacks[run_id].append(text);
AppendToRunStream(s, run_id, text) ==
  LET s1 == IF run_id \notin DOMAIN s.callbacks
            THEN LET u == UiAppend(s, AIMessage(run_id))
                 IN  IF u.pc = "threw" THEN u
                     ELSE [u EXCEPT
                             !.callbacks =
                                [r \in DOMAIN @ \cup {run_id} |->
                                   IF r = run_id THEN CreateStreamableValue
                                   ELSE @[r]]]
            ELSE s
  IN  IF s1.pc # "threw" /\ run_id \in DOMAIN s1.callbacks
      THEN ValueAppend(s1, run_id, text)
      ELSE s1

-----------------------------------------------------------------------------
\* The source events

ToolCallsOutput(types) ==
  [t |-> "object", tool_calls |-> [i \in 1..Len(types) |-> [type |-> types[i]]]]

ResultOutput(text) == [t |-> "object", result |-> Str(text)]

\* A plain-text result next to an empty tool_calls
NoToolCallsOutput(text) ==
  [t |-> "object", tool_calls |-> <<>>, result |-> Str(text)]

ToolResultOutput(payload) ==
  [t |-> "object", tool_result |-> [t |-> "object", payload |-> payload]]

ChainEnd(name, run_id, output) ==
  [t |-> "object", event |-> <<"on", "chain", "end">>,
   name |-> name, run_id |-> run_id,
   data |-> [output |-> output]]

ChainStart(name, run_id) ==
  [t |-> "object", event |-> <<"on", "chain", "start">>,
   name |-> name, run_id |-> run_id,
   data |-> [input |-> [t |-> "object"]]]

ChatModelStream(run_id, content) ==
  [t |-> "object", event |-> <<"on", "chat", "model", "stream">>,
   name |-> "ChatOpenAI",
   run_id |-> run_id,
   data |-> [chunk |-> [t |-> "object", content |-> Str(content)]]]

\* The events a source sequence is drawn from.
Events ==
  {ChainEnd("invoke_model", "m", ToolCallsOutput(<<"github-repo">>)),
   ChainEnd("invoke_model", "m",
            ToolCallsOutput(<<"weather-data", "github-repo">>)),
   ChainEnd("invoke_model", "m", ToolCallsOutput(<<"calculator">>)),
   ChainEnd("invoke_model", "a", ResultOutput("Hi")),
   ChainEnd("invoke_model", "b", NoToolCallsOutput("Hi")),
   ChainEnd("invoke_tools", "t", ToolResultOutput(72)),
   ChainEnd("invoke_tools", "t", ToolResultOutput(31)),
   ChainEnd("LangGraph", "g", ResultOutput("Hi")),
   ChainStart("invoke_model", "m"),
   ChatModelStream("a", "Hel"),
   ChatModelStream("a", "lo"),
   ChatModelStream("b", "lo")}

\* const [type] = streamEvent.event.split("_").slice(2)
EventType(event) == IF Len(event) >= 3 THEN event[3] ELSE "undefined"

-----------------------------------------------------------------------------
\* The first definition of streamRunnableUI

\* A slip: an undefined value does not settle the promise.
PromiseResolve_SkipsUndefined(promise, value) ==
  IF promise.state = "pending" /\ value # [t |-> "undefined"]
  THEN [promise EXCEPT !.state = "fulfilled", !.value = value,
                       !.resolveCalls = @ + 1]
  ELSE [promise EXCEPT !.resolveCalls = @ + 1]

\* resolve of withResolvers: settles the promise the first time it is called
PromiseResolve(promise, value) ==
  IF promise.state = "pending"
  THEN [promise EXCEPT !.state = "fulfilled", !.value = value,
                       !.resolveCalls = @ + 1]
  ELSE [promise EXCEPT !.resolveCalls = @ + 1]

\* A slip: lastEventValue keeps only the events that carry an output.
SetLastEventValue_OnlyOutputs(s, streamEvent) ==
  IF "output" \in DOMAIN streamEvent.data
  THEN [s EXCEPT !.lastEventValue = streamEvent]
  ELSE s

\* A slip: the promise is resolved inside the loop, at every event.
SetLastEventValue_ResolvesInLoop(s, streamEvent) ==
  [s EXCEPT !.lastEventValue = streamEvent,
            !.lastEvent = PromiseResolve(@, Get(streamEvent.data, "output"))]

\* lastEventValue = streamEvent, the last statement of the loop body
SetLastEventValue(s, streamEvent) ==
  [s EXCEPT !.lastEventValue = streamEvent]

handleInvokeModelEvent(s, output) ==
  IF "tool_calls" \in DOMAIN output /\ Len(output.tool_calls) > 0
  THEN LET toolCall == output.tool_calls[1]
           component == LookupTool(toolCall.type)
       IN  IF ~Truthy(s.selectedToolComponent) /\ ~Truthy(s.selectedToolUI)
           THEN IF ~Truthy(component)
                THEN \* undefined.loading() is a TypeError
                     Throw([s EXCEPT !.selectedToolComponent = component],
                           "TypeError")
                ELSE UiAppend(
                       [s EXCEPT
                          !.selectedToolComponent = component,
                          !.selectedToolUI =
                             [t |-> "object", slot |-> Len(s.ui.slots) + 1]],
                       CreateStreamableUI(Loading(component)))
           ELSE s
  ELSE s

\* A slip: the final fragment gets the whole output, not output.tool_result.
handleInvokeToolsEvent_WholeOutput(s, output) ==
  IF Truthy(s.selectedToolUI) /\ Truthy(s.selectedToolComponent)
  THEN ToolUiDone(s, s.selectedToolUI.slot,
                  Final(s.selectedToolComponent, output))
  ELSE s

\* A slip: the UI stream is closed as soon as the tool has its result.
handleInvokeToolsEvent_ClosesUi(s, output) ==
  IF Truthy(s.selectedToolUI) /\ Truthy(s.selectedToolComponent)
  THEN LET done == ToolUiDone(s, s.selectedToolUI.slot,
                              Final(s.selectedToolComponent,
                                    Get(output, "tool_result")))
       IN  IF done.pc = "threw" THEN done ELSE UiDone(done)
  ELSE s

handleInvokeToolsEvent(s, output) ==
  IF Truthy(s.selectedToolUI) /\ Truthy(s.selectedToolComponent)
  THEN LET toolData == Get(output, "tool_result")
       IN  ToolUiDone(s, s.selectedToolUI.slot,
                      Final(s.selectedToolComponent, toolData))
  ELSE s

\* A slip: the streams are keyed by the event's name, not by its run id.
handleChatModelStreamEvent_SharedKey(s, streamEvent, chunk) ==
  AppendToRunStream(s, streamEvent.name, chunk.content)

\* A slip: the fragment of a new text stream is put first in the UI stream.
handleChatModelStreamEvent_Prepend(s, streamEvent, chunk) ==
  LET run_id == streamEvent.run_id
      s1 == IF run_id \notin DOMAIN s.callbacks
            THEN [s EXCEPT
                    !.ui.slots = <<AIMessage(run_id)>> \o @,
                    !.selectedToolUI =
                       IF Truthy(@) THEN [@ EXCEPT !.slot = @ + 1] ELSE @,
                    !.callbacks =
                       [r \in DOMAIN @ \cup {run_id} |->
                          IF r = run_id THEN CreateStreamableValue ELSE @[r]]]
            ELSE s
  IN  ValueAppend(s1, run_id, chunk.content)

\* A slip: the test for an existing stream of the run is missing.
handleChatModelStreamEvent_NoLookup(s, streamEvent, chunk) ==
  AppendToRunStream(
    [s EXCEPT !.callbacks = [r \in DOMAIN @ \ {streamEvent.run_id} |-> @[r]]],
    streamEvent.run_id, chunk.content)

handleChatModelStreamEvent(s, streamEvent, chunk) ==
  AppendToRunStream(s, streamEvent.run_id, chunk.content)

\* One iteration of the for await loop, lines 70-147
LoopBody1(s, streamEvent) ==
  LET output == Get(streamEvent.data, "output")
      chunk == Get(streamEvent.data, "chunk")
      type == EventType(streamEvent.event)
      s1 == IF type = "end" /\ Truthy(output) /\ TypeofObject(output)
            THEN IF streamEvent.name = "invoke_model"
                 THEN handleInvokeModelEvent(s, output)
                 ELSE IF streamEvent.name = "invoke_tools"
                      THEN handleInvokeToolsEvent(s, output)
                      ELSE s
            ELSE s
      s2 == IF s1.pc = "threw" THEN s1
            ELSE IF /\ streamEvent.event = <<"on", "chat", "model", "stream">>
                    /\ Truthy(chunk)
                    /\ TypeofObject(chunk)
                 THEN handleChatModelStreamEvent(s1, streamEvent, chunk)
                 ELSE s1
  IN  IF s2.pc = "threw" THEN s2
      ELSE SetLastEventValue(s2, streamEvent)

-----------------------------------------------------------------------------
\* The second definition of streamRunnableUI

\* One iteration of the for await loop, lines 278-317
LoopBody2(s, streamEvent) ==
  LET output == Get(streamEvent.data, "output")
      type == EventType(streamEvent.event)
      s1 ==
        IF /\ Truthy(output)
           /\ TypeofObject(output)
           /\ type = "end"
           /\ streamEvent.name = "invoke_model"
        THEN IF "tool_calls" \in DOMAIN output /\ Len(output.tool_calls) > 0
             THEN LET toolCall == output.tool_calls[1]
                      found == LookupTool(toolCall.type)
                      selectedTool == IF found.t = "undefined" THEN Null
                                      ELSE found
                  IN  IF ~Truthy(selectedTool)
                      THEN Throw([s EXCEPT !.selectedTool = selectedTool],
                                 "Selected tool not found in tool map.")
                      ELSE UiAppend([s EXCEPT !.selectedTool = selectedTool],
                                    Loading(selectedTool))
             ELSE IF "result" \in DOMAIN output /\ output.result.t = "string"
                  THEN AppendToRunStream(s, streamEvent.run_id, output.result)
                  ELSE s
        ELSE IF type = "end" /\ streamEvent.name = "invoke_tools"
             THEN IF output.t \in {"undefined", "null"}
                  THEN \* output.tool_result of undefined is a TypeError
                       Throw(s, "TypeError")
                  ELSE LET toolData == Get(output, "tool_result")
                       IN  UiAppend(s, IF Truthy(s.selectedTool)
                                       THEN Final(s.selectedTool, toolData)
                                       ELSE Undefined)
             ELSE s
  IN  IF s1.pc = "threw" THEN s1
      ELSE SetLastEventValue(s1, streamEvent)

-----------------------------------------------------------------------------
\* After the loop, lines 149-154 and 320-325, in program order

\* A slip: the promise is resolved last.
Epilogue_ResolveLast == <<"callbacksDone", "uiDone", "resolve">>

Epilogue == <<"resolve", "callbacksDone", "uiDone">>

\* The statement after the k-th of the epilogue
EpiloguePc(k) == IF k <= Len(Epilogue) THEN Epilogue[k] ELSE "returned"

\* lastEventValue?.data.output
LastEventOutput(lastEventValue) ==
  IF Truthy(lastEventValue) THEN Get(lastEventValue.data, "output")
  ELSE Undefined

RECURSIVE DoneAll(_, _)
\* Object.values(callbacks).forEach((cb) => cb.done())
DoneAll(s, run_ids) ==
  IF run_ids = {} \/ s.pc = "threw" THEN s
  ELSE LET r == CHOOSE r \in run_ids : TRUE
       IN  DoneAll(ValueDone(s, r), run_ids \ {r})

-----------------------------------------------------------------------------
\* The state machine

\* streamRunnableUI up to the start of the loop
NewInvocation ==
  [pc |-> "loop",
   k |-> 0,
   err |-> "",
   ui |-> [slots |-> <<>>, closed |-> FALSE, doneCalls |-> 0],
   lastEvent |-> [state |-> "pending", value |-> Undefined, resolveCalls |-> 0],
   lastEventValue |-> Null,
   callbacks |-> [r \in {} |-> CreateStreamableValue],
   selectedToolComponent |-> Null,
   selectedToolUI |-> Null,
   selectedTool |-> Null,
   consumerGone |-> FALSE]

\* Two invocations of streamRunnableUI at the same time
Invocations == {1, 2}

\* An invocation of the pair: its state, the events its source has yielded,
\* how its loop ended and how many statements of its epilogue have run.
Started ==
  [inv |-> NewInvocation, consumed |-> <<>>, ended |-> "no", statements |-> 0]

Init ==
  /\ impl \in {1, 2}
  /\ consumed = <<>>
  /\ inv = NewInvocation
  /\ pair = [i \in Invocations |-> Started]
  /\ OthersIdle

LoopBody(s, streamEvent) ==
  IF impl = 1 THEN LoopBody1(s, streamEvent) ELSE LoopBody2(s, streamEvent)

\* The source yields an event and the loop body handles it.
NextEvent(streamEvent) ==
  /\ inv.pc = "loop"
  /\ Len(consumed) < MaxEvents
  /\ consumed' = Append(consumed, streamEvent)
  /\ inv' = LoopBody(inv, streamEvent)
  /\ UNCHANGED <<impl, pair, others>>

\* The source is exhausted: the loop ends.
SourceExhausted ==
  /\ inv.pc = "loop"
  /\ inv' = [inv EXCEPT !.pc = EpiloguePc(1), !.k = 1]
  /\ UNCHANGED <<impl, consumed, pair, others>>

\* The source iterator throws: the exception leaves the async function.
SourceFails ==
  /\ inv.pc = "loop"
  /\ inv' = Throw(inv, "ProducerError")
  /\ UNCHANGED <<impl, consumed, pair, others>>

\* A statement of the epilogue has run; the next one is due.
Advance(s) ==
  IF s.pc = "threw" THEN s
  ELSE [s EXCEPT !.pc = EpiloguePc(s.k + 1), !.k = s.k + 1]

\* resolve(lastEventValue?.data.output)
Resolve ==
  /\ inv.pc = "resolve"
  /\ inv' = Advance([inv EXCEPT
                       !.lastEvent =
                          PromiseResolve(@, LastEventOutput(inv.lastEventValue))])
  /\ UNCHANGED <<impl, consumed, pair, others>>

CallbacksDone ==
  /\ inv.pc = "callbacksDone"
  /\ inv' = Advance(DoneAll(inv, DOMAIN inv.callbacks))
  /\ UNCHANGED <<impl, consumed, pair, others>>

UiDoneStep ==
  /\ inv.pc = "uiDone"
  /\ inv' = Advance(UiDone(inv))
  /\ UNCHANGED <<impl, consumed, pair, others>>

Next ==
  \/ \E streamEvent \in Events : NextEvent(streamEvent)
  \/ SourceExhausted
  \/ SourceFails
  \/ Resolve
  \/ CallbacksDone
  \/ UiDoneStep

Spec == Init /\ [][Next]_vars

-----------------------------------------------------------------------------
\* An invocation whose consumer goes away.  streamRunnableUI gives
\* streamEvents no abort signal and has no handler for a consumer that
\* stops reading ui.value or lastEvent: the disconnection changes nothing
\* the pass reads.
ConsumerDisconnects ==
  /\ inv.pc \notin {"returned", "threw"}
  /\ ~inv.consumerGone
  /\ inv' = [inv EXCEPT !.consumerGone = TRUE]
  /\ UNCHANGED <<impl, consumed, pair, others>>

NextCancel ==
  \/ \E streamEvent \in Events : NextEvent(streamEvent)
  \/ SourceExhausted
  \/ SourceFails
  \/ Resolve
  \/ CallbacksDone
  \/ UiDoneStep
  \/ ConsumerDisconnects

SpecCancel == Init /\ [][NextCancel]_vars

-----------------------------------------------------------------------------
\* Two invocations at the same time.  Each call of streamRunnableUI makes
\* its own ui, lastEvent, lastEventValue, callbacks and selected tool; the
\* event loop runs one loop body or one statement of one invocation at a
\* time, in any order.

\* The events a source of the pair can yield
PairEvents ==
  {ChainEnd("invoke_model", "m", ToolCallsOutput(<<"github-repo">>)),
   ChainEnd("invoke_tools", "t", ToolResultOutput(72)),
   ChainEnd("invoke_model", "a", ResultOutput("Hi")),
   ChatModelStream("a", "Hel")}

InitPair ==
  /\ impl \in {1, 2}
  /\ consumed = <<>>
  /\ inv = NewInvocation
  /\ pair = [i \in Invocations |-> Started]
  /\ OthersIdle

\* The loop has ended on the exhausted source.
Exhaust(s) == [s EXCEPT !.pc = EpiloguePc(1), !.k = 1]

\* The statement of the epilogue that is due
EpilogueStep(s) ==
  CASE s.pc = "resolve" ->
         Advance([s EXCEPT
                    !.lastEvent =
                       PromiseResolve(@, LastEventOutput(s.lastEventValue))])
    [] s.pc = "callbacksDone" -> Advance(DoneAll(s, DOMAIN s.callbacks))
    [] s.pc = "uiDone" -> Advance(UiDone(s))
    [] OTHER -> s

\* A slip: callbacks is one map of the module, shared by the invocations.
Deliver_SharedCallbacks(p, i, streamEvent) ==
  LET s == LoopBody(p[i].inv, streamEvent)
  IN  [j \in DOMAIN p |->
         IF j = i
         THEN [p[j] EXCEPT !.inv = s, !.consumed = Append(@, streamEvent)]
         ELSE [p[j] EXCEPT !.inv.callbacks = s.callbacks]]

\* The loop body of invocation i handles an event of its own source.
Deliver(p, i, streamEvent) ==
  [p EXCEPT ![i].inv = LoopBody(@, streamEvent),
            ![i].consumed = Append(@, streamEvent)]

PairNextEvent(i, streamEvent) ==
  /\ pair[i].inv.pc = "loop"
  /\ Len(pair[i].consumed) < MaxPairEvents
  /\ pair' = Deliver(pair, i, streamEvent)
  /\ UNCHANGED <<impl, consumed, inv, others>>

PairSourceExhausted(i) ==
  /\ pair[i].inv.pc = "loop"
  /\ pair' = [pair EXCEPT ![i].inv = Exhaust(@), ![i].ended = "exhausted"]
  /\ UNCHANGED <<impl, consumed, inv, others>>

PairSourceFails(i) ==
  /\ pair[i].inv.pc = "loop"
  /\ pair' = [pair EXCEPT ![i].inv = Throw(@, "ProducerError"),
                          ![i].ended = "failed"]
  /\ UNCHANGED <<impl, consumed, inv, others>>

PairEpilogue(i) ==
  /\ pair[i].inv.pc \in {"resolve", "callbacksDone", "uiDone"}
  /\ pair' = [pair EXCEPT ![i].inv = EpilogueStep(@),
                          ![i].statements = @ + 1]
  /\ UNCHANGED <<impl, consumed, inv, others>>

NextPair ==
  \E i \in Invocations :
     \/ \E streamEvent \in PairEvents : PairNextEvent(i, streamEvent)
     \/ PairSourceExhausted(i)
     \/ PairSourceFails(i)
     \/ PairEpilogue(i)

SpecPair == InitPair /\ [][NextPair]_vars

-----------------------------------------------------------------------------
\* The agent graph of agentExecutor: START -> invokeModel, the conditional
\* edge invokeToolsOrReturn after invokeModel, invokeTools -> END.  `graph`
\* holds the channels of AgentExecutorState, the node that is due and the
\* nodes that have run.

\* The names of githubTool, invoiceTool and weatherTool
GraphToolNames == {"github_repo", "get_order_invoice", "get_weather"}

\* What the model can answer: the tool names it is bound to, a name it
\* makes up, and a text, possibly empty.
ModelToolNames == GraphToolNames \cup {"calculator"}

ModelContents == {"Hi", ""}

\* The args of the model's tool call
ModelToolArgs == {[t |-> "object", q |-> "SF"], [t |-> "object", q |-> "NYC"]}

GraphInputs == {"weather in SF?", "hello", "my invoice"}

ToolPayloads == {72, 31}

StartGraph(input) ==
  [pc |-> "START", err |-> "", ran |-> <<>>,
   input |-> input, result |-> Undefined, toolCall |-> Undefined,
   toolResult |-> Undefined]

InitGraph ==
  /\ impl = 1
  /\ consumed = <<>>
  /\ inv = NewInvocation
  /\ pair = [i \in Invocations |-> Started]
  /\ graph \in {StartGraph(input) : input \in GraphInputs}
  /\ filterGraph = Idle
  /\ chat = Idle
  /\ filters = Idle

GraphThrow(g, error) == [g EXCEPT !.pc = "threw", !.err = error]

\* addEdge(START, "invokeModel")
EnterGraph ==
  /\ graph.pc = "START"
  /\ graph' = [graph EXCEPT !.pc = "invokeModel"]
  /\ UNCHANGED <<impl, consumed, inv, pair, filterGraph, chat, filters>>

\* invokeModel, the model having answered with tool_calls
invokeModelToolCall(g, name, args) ==
  [g EXCEPT !.toolCall = [t |-> "object", name |-> name, parameters |-> args],
            !.ran = Append(@, "invokeModel"),
            !.pc = "invokeToolsOrReturn"]

\* invokeModel, the model having answered with text only
invokeModelResult(g, content) ==
  [g EXCEPT !.result = Str(content),
            !.ran = Append(@, "invokeModel"),
            !.pc = "invokeToolsOrReturn"]

InvokeModel ==
  /\ graph.pc = "invokeModel"
  /\ \/ \E name \in ModelToolNames, args \in ModelToolArgs :
           graph' = invokeModelToolCall(graph, name, args)
     \/ \E content \in ModelContents :
           graph' = invokeModelResult(graph, content)
     \/ graph' = GraphThrow([graph EXCEPT !.ran = Append(@, "invokeModel")],
                            "chain.invoke rejected")
  /\ UNCHANGED <<impl, consumed, inv, pair, filterGraph, chat, filters>>

\* The conditional edge after invokeModel
invokeToolsOrReturn(state) ==
  IF Truthy(state.toolCall) THEN "invokeTools"
  ELSE IF Truthy(state.result) THEN "END"
  ELSE "throw"

Route ==
  /\ graph.pc = "invokeToolsOrReturn"
  /\ graph' = IF invokeToolsOrReturn(graph) = "throw"
              THEN GraphThrow(graph, "No tool call or result found.")
              ELSE [graph EXCEPT !.pc = invokeToolsOrReturn(graph)]
  /\ UNCHANGED <<impl, consumed, inv, pair, filterGraph, chat, filters>>

\* A slip: the agent loops back to the model after a tool.
EdgeFromInvokeTools_BackToModel == "invokeModel"

\* addEdge("invokeTools", END)
EdgeFromInvokeTools == "END"

\* invokeTools, the selected tool having returned `payload`
invokeTools(g, payload) ==
  LET ran == [g EXCEPT !.ran = Append(@, "invokeTools")]
  IN  IF ~Truthy(g.toolCall) THEN GraphThrow(ran, "No tool call found.")
      ELSE IF g.toolCall.name \notin GraphToolNames
           THEN GraphThrow(ran, "No tool found in tool map.")
           ELSE [ran EXCEPT
                   !.toolResult = [t |-> "object", payload |-> payload],
                   !.pc = EdgeFromInvokeTools]

InvokeTools ==
  /\ graph.pc = "invokeTools"
  /\ \/ \E payload \in ToolPayloads : graph' = invokeTools(graph, payload)
     \/ /\ Truthy(graph.toolCall)
        /\ graph.toolCall.name \in GraphToolNames
        /\ graph' = GraphThrow([graph EXCEPT !.ran = Append(@, "invokeTools")],
                               "selectedTool.invoke rejected")
  /\ UNCHANGED <<impl, consumed, inv, pair, filterGraph, chat, filters>>

NextGraph ==
  \/ EnterGraph
  \/ InvokeModel
  \/ Route
  \/ InvokeTools

SpecGraph == InitGraph /\ [][NextGraph]_vars

-----------------------------------------------------------------------------
\* The event handler of filterGraph (app/charts/agent.tsx).  `filterGraph`
\* holds the closure variables displayFormat and chartType, the UI stream
\* the handler is given (fields.ui) and the events handled so far.  An
\* exception leaves the handler and ends the pass.

\* The keys of the display formats (the table of charts/filters.tsx)
DISPLAY_FORMATS == {"totalAmount", "state", "totalDiscount", "status",
                    "ordersByMonth"}

ChartTypes == {"bar", "pie", "line"}

\* chartType === "bar" || chartType === "pie" || chartType === "line"
IsChartType(chartType) == chartType.t = "string" /\ chartType.v \in ChartTypes

\* A LangGraph event, as it arrives in streamEvent.data.chunk
LangGraphEvent(event, name, output) ==
  [t |-> "object", event |-> event, name |-> name,
   data |-> [output |-> output]]

ChartEvents ==
  {LangGraphEvent("on_chain_end", "generate_filters",
                  [selected_filters |-> [t |-> "object", status |-> "shipped"]]),
   LangGraphEvent("on_chain_end", "generate_chart_type", [chart_type |-> Str("pie")]),
   LangGraphEvent("on_chain_end", "generate_chart_type", [chart_type |-> Str("bar")]),
   LangGraphEvent("on_chain_end", "generate_data_display_format",
                  [display_format |-> Str("status")]),
   LangGraphEvent("on_chain_end", "generate_data_display_format",
                  [display_format |-> Str("averageDiscount")]),
   LangGraphEvent("on_chain_end", "filter_data", [orders |-> <<"order-1">>]),
   LangGraphEvent("on_chain_start", "filter_data", [orders |-> <<>>]),
   LangGraphEvent("on_chain_end", "LangGraph", [orders |-> <<"order-1">>]),
   Undefined}

InitCharts ==
  /\ impl = 1
  /\ consumed = <<>>
  /\ inv = NewInvocation
  /\ pair = [i \in Invocations |-> Started]
  /\ graph = Idle
  /\ filterGraph = [pc |-> "handling", err |-> "", displayFormat |-> Str(""),
                    chartType |-> Undefined, ui |-> <<>>, handled |-> <<>>]
  /\ chat = Idle
  /\ filters = Idle

ChartThrow(f, error) == [f EXCEPT !.pc = "threw", !.err = error]

\* ui.update(node) shows node in place of what the stream showed;
\* ui.append(node) shows it after.
handleSelectedFilters(f, selected_filters) ==
  [f EXCEPT !.ui = <<Element("FilterButtons", selected_filters)>>]

LoadingChart(chartType) ==
  CASE chartType = "bar" -> "LoadingBarChart"
    [] chartType = "pie" -> "LoadingPieChart"
    [] chartType = "line" -> "LoadingLineChart"

Chart(chartType) ==
  CASE chartType = "bar" -> "BarChart"
    [] chartType = "pie" -> "PieChart"
    [] chartType = "line" -> "LineChart"

handleChartType(f, chartType) ==
  IF IsChartType(chartType)
  THEN [f EXCEPT
          !.ui = Append(@, Element(LoadingChart(chartType.v), Undefined))]
  ELSE f

handleConstructingCharts(f, orders, chartType, displayFormat) ==
  IF displayFormat.v \notin DISPLAY_FORMATS
  THEN ChartThrow(f, "Display format not found in DISPLAY_FORMATS")
  ELSE IF IsChartType(chartType)
       THEN [f EXCEPT
               !.ui = <<Element(Chart(chartType.v),
                                [t |-> "object", propsFn |-> displayFormat.v,
                                 orders |-> orders])>>]
       ELSE f

\* A slip: the test asks for both to be missing.
NotSetBeforeFiltering_Both(chartType, displayFormat) ==
  ~Truthy(chartType) /\ ~Truthy(displayFormat)

\* !chartType || !displayFormat
NotSetBeforeFiltering(chartType, displayFormat) ==
  ~Truthy(chartType) \/ ~Truthy(displayFormat)

eventHandlerOne(f, langGraphEvent) ==
  IF langGraphEvent = Undefined THEN f
  ELSE IF langGraphEvent.event # "on_chain_end" THEN f
  ELSE LET name == langGraphEvent.name
           output == langGraphEvent.data.output
       IN  CASE name = "generate_filters" ->
                  handleSelectedFilters(f, output.selected_filters)
             [] name = "generate_chart_type" ->
                  handleChartType([f EXCEPT !.chartType = output.chart_type],
                                  output.chart_type)
             [] name = "generate_data_display_format" ->
                  [f EXCEPT !.displayFormat = output.display_format]
             [] name = "filter_data" ->
                  IF NotSetBeforeFiltering(f.chartType, f.displayFormat)
                  THEN ChartThrow(f, "Chart type and display format must be set before filtering data")
                  ELSE handleConstructingCharts(f, output.orders, f.chartType,
                                                f.displayFormat)
             [] OTHER -> f

HandleChartEvent(langGraphEvent) ==
  /\ filterGraph.pc = "handling"
  /\ Len(filterGraph.handled) < MaxChartEvents
  /\ filterGraph' =
       [eventHandlerOne(filterGraph, langGraphEvent) EXCEPT
          !.handled = Append(@, langGraphEvent)]
  /\ UNCHANGED <<impl, consumed, inv, pair, graph, chat, filters>>

NextCharts == \E langGraphEvent \in ChartEvents : HandleChartEvent(langGraphEvent)

SpecCharts == InitCharts /\ [][NextCharts]_vars

-----------------------------------------------------------------------------
\* The Chat component (components/prebuilt/chat.tsx).  `chat` holds the
\* React state `elements` and `history` and the calls of onSubmit under
\* way: each has the input, the copy newElements it made of `elements` when
\* it started, and the await it stands at.

\* What the user types, turn after turn
ChatInputs == [n \in 1..MaxTurns |-> IF n = 1 THEN "weather in SF?" ELSE "and in NYC?"]

Array(items) == [t |-> "array", items |-> items]

\* The values element.lastEvent can resolve with
LastEventValues ==
  {Undefined,
   [t |-> "object", invoke_model |-> [t |-> "object", result |-> Str("Hi")]],
   [t |-> "object", result |-> Str("Hi")],
   [t |-> "object", tool_result |-> [t |-> "object", payload |-> 72]],
   Array(<<[t |-> "object",
            invoke_model |-> [t |-> "object", result |-> Str("Hi")]]>>),
   Array(<<[t |-> "object",
            invoke_model |-> [t |-> "object", tool_calls |-> <<"github-repo">>]],
           [t |-> "object",
            invoke_tools |-> [t |-> "object", tool_result |-> 72]]>>),
   Array(<<[t |-> "object",
            invoke_model |-> [t |-> "object", tool_calls |-> <<"github-repo">>]]>>),
   Array(<<[t |-> "object", LangGraph |-> Undefined],
           [t |-> "object", LangGraph |-> Undefined]>>)}

InitChat ==
  /\ impl = 1
  /\ consumed = <<>>
  /\ inv = NewInvocation
  /\ pair = [i \in Invocations |-> Started]
  /\ graph = Idle
  /\ filterGraph = Idle
  /\ chat = [elements |-> <<>>, history |-> <<>>, turns |-> <<>>]
  /\ filters = Idle

\* onSubmit up to its await of actions.agent (no file selected)
Submit ==
  /\ Len(chat.turns) < MaxTurns
  /\ chat' = [chat EXCEPT
                !.turns = Append(@, [input |-> ChatInputs[Len(@) + 1],
                                     pc |-> "agent",
                                     newElements |-> chat.elements,
                                     key |-> Len(chat.history)])]
  /\ UNCHANGED <<impl, consumed, inv, pair, graph, filterGraph, filters>>

\* actions.agent has returned: the turn's element is pushed on the copy
\* and setElements(newElements) replaces the state.
AgentReturns(turn) ==
  /\ chat.turns[turn].pc = "agent"
  /\ LET newElements ==
           Append(chat.turns[turn].newElements,
                  [t |-> "object", key |-> chat.turns[turn].key,
                   content |-> chat.turns[turn].input, ui |-> turn])
     IN  chat' = [chat EXCEPT !.elements = newElements,
                              !.turns[turn].newElements = newElements,
                              !.turns[turn].pc = "lastEvent"]
  /\ UNCHANGED <<impl, consumed, inv, pair, graph, filterGraph, filters>>

HasResult(item) ==
  /\ Truthy(Get(item, "invoke_model"))
  /\ Truthy(Get(item.invoke_model, "result"))

HumanEntry(input) == [role |-> "human", content |-> input]

\* The history after the turn's lastEvent has resolved; "TypeError" when
\* the reading of lastEvent throws.
HistoryAfter(prev, input, lastEvent) ==
  IF lastEvent.t = "array"
  THEN IF lastEvent.items = <<>> THEN "TypeError"
       ELSE IF HasResult(lastEvent.items[1])
            THEN prev \o <<HumanEntry(input),
                           [role |-> "ai",
                            content |-> lastEvent.items[1].invoke_model.result.v]>>
            ELSE IF Len(lastEvent.items) < 2 THEN "TypeError"
                 ELSE IF Truthy(Get(lastEvent.items[2], "invoke_tools"))
                      THEN prev \o <<HumanEntry(input),
                                     [role |-> "ai", content |-> "Tool result"]>>
                      ELSE prev \o <<HumanEntry(input)>>
  ELSE IF lastEvent.t \in {"undefined", "null"} THEN "TypeError"
       ELSE IF HasResult(lastEvent)
            THEN prev \o <<HumanEntry(input),
                           [role |-> "ai",
                            content |-> lastEvent.invoke_model.result.v]>>
            ELSE prev

LastEventResolves(turn, lastEvent) ==
  /\ chat.turns[turn].pc = "lastEvent"
  /\ LET after == HistoryAfter(chat.history, chat.turns[turn].input, lastEvent)
     IN  chat' = IF after = "TypeError"
                 THEN [chat EXCEPT !.turns[turn].pc = "threw"]
                 ELSE [chat EXCEPT !.history = after,
                                   !.turns[turn].pc = "done"]
  /\ UNCHANGED <<impl, consumed, inv, pair, graph, filterGraph, filters>>

NextChat ==
  \/ Submit
  \/ \E turn \in 1..Len(chat.turns) : AgentReturns(turn)
  \/ \E turn \in 1..Len(chat.turns), lastEvent \in LastEventValues :
        LastEventResolves(turn, lastEvent)

SpecChat == InitChat /\ [][NextChat]_vars

-----------------------------------------------------------------------------
\* The functions of app/charts/filters.tsx.  `filters` holds one call: the
\* function, its arguments and, once it has returned, its result.

\* String.prototype.toLowerCase on the strings of the orders
ToLowerCase(str) ==
  CASE str = "Shipped" -> "shipped"
    [] str = "Pending" -> "pending"
    [] str = "Laptop" -> "laptop"
    [] str = "CA" -> "ca"
    [] str = "Oakland" -> "oakland"
    [] OTHER -> str

Order(discount, status) ==
  [productName |-> "Laptop", orderedAt |-> 3, amount |-> 100,
   address |-> [state |-> "CA", city |-> "Oakland"],
   discount |-> discount, status |-> status]

OrderSet ==
  {Order(Undefined, "shipped"), Order(Num(20), "shipped"),
   Order(Num(5), "pending"), Order(Undefined, "pending")}

OrderLists == UNION {[1..n -> OrderSet] : n \in 0..MaxOrders}

\* A Partial<Filter> with no field set
NoFilter ==
  [productNames |-> Undefined, beforeDate |-> Undefined,
   afterDate |-> Undefined, minAmount |-> Undefined, maxAmount |-> Undefined,
   state |-> Undefined, city |-> Undefined, discount |-> Undefined,
   minDiscountPercentage |-> Undefined, status |-> Undefined]

FilterSet ==
  {[NoFilter EXCEPT !.discount = discount, !.minDiscountPercentage = min,
                    !.status = status] :
     discount \in {Undefined, Bool(TRUE), Bool(FALSE)},
     min \in {Undefined, Num(10)},
     status \in {Undefined, Str("shipped")}}

InitFilters ==
  /\ impl = 1
  /\ consumed = <<>>
  /\ inv = NewInvocation
  /\ pair = [i \in Invocations |-> Started]
  /\ graph = Idle
  /\ filterGraph = Idle
  /\ chat = Idle
  /\ filters \in
       {[fn |-> "filterOrders", orders |-> orders, selectedFilters |-> f,
         pc |-> "called", result |-> Undefined] :
          orders \in OrderLists, f \in FilterSet}
       \cup
       {[fn |-> "constructStatusPieChartProps", orders |-> orders,
         selectedFilters |-> NoFilter, pc |-> "called", result |-> Undefined] :
          orders \in OrderLists}

\* The body of the filter callback of filterOrders: isMatch for one order
IsMatch(order, f) ==
  /\ ~(/\ Truthy(f.productNames)
       /\ ToLowerCase(order.productName) \notin
            {f.productNames.items[n] : n \in 1..Len(f.productNames.items)})
  /\ ~(Truthy(f.beforeDate) /\ order.orderedAt > f.beforeDate.v)
  /\ ~(Truthy(f.afterDate) /\ order.orderedAt < f.afterDate.v)
  /\ ~(Truthy(f.minAmount) /\ order.amount < f.minAmount.v)
  /\ ~(Truthy(f.maxAmount) /\ order.amount > f.maxAmount.v)
  /\ ~(/\ Truthy(f.state)
       /\ ToLowerCase(order.address.state) # ToLowerCase(f.state.v))
  /\ ~(/\ Truthy(f.city)
       /\ ToLowerCase(order.address.city) # ToLowerCase(f.city.v))
  /\ ~(/\ f.discount # Undefined
       /\ (order.discount = Undefined) # f.discount.v)
  /\ ~(/\ f.minDiscountPercentage # Undefined
       /\ \/ order.discount = Undefined
          \/ order.discount.v < f.minDiscountPercentage.v)
  /\ ~(Truthy(f.status) /\ ToLowerCase(order.status) # f.status.v)

filterOrders(state) ==
  LET f == state.selectedFilters
  IN  IF f.minDiscountPercentage # Undefined /\ f.discount = Bool(FALSE)
      THEN [state EXCEPT !.pc = "threw"]
      ELSE [state EXCEPT
              !.pc = "returned",
              !.result = SelectSeq(state.orders,
                                   LAMBDA order : IsMatch(order, f))]

RECURSIVE CountStatuses(_, _)
\* The reduce of constructStatusPieChartProps: acc as the list of its
\* entries, in the order the keys were added
CountStatuses(acc, orders) ==
  IF orders = <<>> THEN acc
  ELSE LET o == Head(orders)
           known == {n \in 1..Len(acc) : acc[n].status = o.status}
           started ==
             IF known = {}
             THEN Append(acc, [status |-> o.status, count |-> 1])
             ELSE acc
           added == [n \in 1..Len(started) |->
                       IF started[n].status = o.status
                       THEN [started[n] EXCEPT !.count = @ + 1]
                       ELSE started[n]]
       IN  CountStatuses(added, Tail(orders))

constructStatusPieChartProps(orders) ==
  LET totalOrdersForEachStatus == CountStatuses(<<>>, orders)
  IN  [series |->
         <<[data |->
              [idx \in 1..Len(totalOrdersForEachStatus) |->
                 [id |-> idx - 1,
                  value |-> totalOrdersForEachStatus[idx].count,
                  label |-> totalOrdersForEachStatus[idx].status]]]>>]

CallFilterOrders ==
  /\ filters.fn = "filterOrders"
  /\ filters.pc = "called"
  /\ filters' = filterOrders(filters)
  /\ UNCHANGED <<impl, consumed, inv, pair, graph, filterGraph, chat>>

CallConstructStatusPieChartProps ==
  /\ filters.fn = "constructStatusPieChartProps"
  /\ filters.pc = "called"
  /\ filters' = [filters EXCEPT
                   !.pc = "returned",
                   !.result = constructStatusPieChartProps(filters.orders)]
  /\ UNCHANGED <<impl, consumed, inv, pair, graph, filterGraph, chat>>

NextFilters ==
  \/ CallFilterOrders
  \/ CallConstructStatusPieChartProps

SpecFilters == InitFilters /\ [][NextFilters]_vars

-----------------------------------------------------------------------------
\* The vocabulary of the properties, over the events delivered so far

Output(streamEvent) == Get(streamEvent.data, "output")

\* An end event of the named graph node that carries an output object
IsNodeEnd(streamEvent, name) ==
  /\ EventType(streamEvent.event) = "end"
  /\ streamEvent.name = name
  /\ Output(streamEvent).t = "object"

\* A tool-selection event: invoke_model ends with a non-empty tool_calls
IsToolSelection(streamEvent) ==
  /\ IsNodeEnd(streamEvent, "invoke_model")
  /\ "tool_calls" \in DOMAIN Output(streamEvent)
  /\ Len(Output(streamEvent).tool_calls) > 0

SelectedType(streamEvent) == Output(streamEvent).tool_calls[1].type

\* A tool-completion event: invoke_tools ends
IsToolCompletion(streamEvent) == IsNodeEnd(streamEvent, "invoke_tools")

\* A token-chunk event
IsTokenChunk(streamEvent) ==
  /\ streamEvent.event = <<"on", "chat", "model", "stream">>
  /\ Get(streamEvent.data, "chunk").t = "object"

Selections(events) == {i \in 1..Len(events) : IsToolSelection(events[i])}

Completions(events) == {i \in 1..Len(events) : IsToolCompletion(events[i])}

Chunks(events) == {i \in 1..Len(events) : IsTokenChunk(events[i])}

\* What a slot of the UI stream shows
Shown(slot) == IF slot.t = "streamableUI" THEN slot.node ELSE slot

ShowsComponent(slot, components) ==
  /\ "component" \in DOMAIN Shown(slot)
  /\ Shown(slot).component \in components

\* The slots that show the loading or the final component of a tool
ToolSlots(tool) ==
  {n \in 1..Len(inv.ui.slots) :
     ShowsComponent(inv.ui.slots[n], {TOOL_COMPONENT_MAP[tool].loading,
                                      TOOL_COMPONENT_MAP[tool].final})}

TextSlots == {n \in 1..Len(inv.ui.slots) :
                ShowsComponent(inv.ui.slots[n], {"AIMessage"})}

AllTextStreamsClosed == \A r \in DOMAIN inv.callbacks : inv.callbacks[r].closed

\* The loop body failed (an exception of a handler, not of the source).
HandlerFailed == inv.pc = "threw" /\ inv.err # "ProducerError"

\* This step delivers an event to the loop body.
Delivers == Len(consumed') = Len(consumed) + 1

RECURSIVE ConcatChunks(_)
\* The contents of the token chunks of a sequence of events, in order
ConcatChunks(events) ==
  IF events = <<>> THEN ""
  ELSE LET rest == ConcatChunks(SubSeq(events, 1, Len(events) - 1))
           e == Last(events)
       IN  IF IsTokenChunk(e) THEN rest \o e.data.chunk.content.v ELSE rest

\* A placeholder is open: a mapped tool was selected and no completion came.
PlaceholderOpen ==
  \E i \in Selections(consumed) :
     /\ SelectedType(consumed[i]) \in ToolNames
     /\ \A j \in Completions(consumed) : j < i

\* The pass records a selected tool.
RecordsTool(s) ==
  Truthy(s.selectedToolComponent) \/ Truthy(s.selectedToolUI)
    \/ Truthy(s.selectedTool)

-----------------------------------------------------------------------------
\* C1: when the events hold exactly one tool-selection event, of a mapped
\* tool, and then at most one tool-completion event after it, the UI stream
\* holds exactly one slot for the tool: it shows the tool's loading fragment
\* until the completion and the tool's final fragment, built from the
\* completion's tool_result, after it.
C1_OneSlotPerTool ==
  \A i \in Selections(consumed) :
     LET tool == SelectedType(consumed[i])
         done == Completions(consumed)
     IN  (/\ Selections(consumed) = {i}
          /\ tool \in ToolNames
          /\ Cardinality(done) <= 1
          /\ \A j \in done : j > i)
         => /\ Cardinality(ToolSlots(tool)) = 1
            /\ \A n \in ToolSlots(tool) :
                  Shown(inv.ui.slots[n]) =
                    IF done = {} THEN Loading(TOOL_COMPONENT_MAP[tool])
                    ELSE LET j == CHOOSE j \in done : TRUE
                         IN  Final(TOOL_COMPONENT_MAP[tool],
                                   Output(consumed[j]).tool_result)

\* C2: in the first definition, when the events hold no tool selection and
\* one or more token chunks, all of one run id, the UI stream holds exactly
\* one text-stream fragment, the one of that run, and the text stream holds
\* the concatenation of the chunks' contents in arrival order.
C2_SingleRunText ==
  (/\ impl = 1
   /\ Selections(consumed) = {}
   /\ Chunks(consumed) # {}
   /\ \A i, j \in Chunks(consumed) : consumed[i].run_id = consumed[j].run_id)
  => LET first == CHOOSE i \in Chunks(consumed) : TRUE
         run == consumed[first].run_id
     IN  /\ Cardinality(TextSlots) = 1
         /\ \A n \in TextSlots : inv.ui.slots[n] = AIMessage(run)
         /\ DOMAIN inv.callbacks = {run}
         /\ inv.callbacks[run].value = ConcatChunks(consumed)

C2_Witness ==
  /\ impl = 1
  /\ inv.pc = "returned"
  /\ Selections(consumed) = {}
  /\ Cardinality(Chunks(consumed)) >= 2
  /\ "a" \in DOMAIN inv.callbacks
  /\ inv.callbacks["a"].value = "Hello"
  /\ Len(inv.ui.slots) = 1

\* C3: the UI stream is closed at most once and only after the source is
\* exhausted, with every text stream closed by then; and a pass that has
\* ended (the source did not fail) has closed the UI stream exactly once and
\* left no text stream open.
C3_SinkClosedExactlyOnce ==
  /\ inv.ui.doneCalls <= 1
  /\ inv.ui.closed => (inv.k >= 1 /\ AllTextStreamsClosed)
  /\ (inv.pc = "returned" \/ HandlerFailed)
       => (inv.ui.doneCalls = 1 /\ AllTextStreamsClosed)

\* C4: when the pass has failed while handling an event, every text stream
\* opened so far is closed and the UI stream is closed.
C4_FailedPassClosesSink ==
  HandlerFailed => (inv.ui.closed /\ AllTextStreamsClosed)

\* C5: a tool-completion event delivered when no tool-selection event came
\* before it makes the pass fail and appends nothing to the UI stream.
C5_UnmatchedToolResultFails ==
  [][(/\ Delivers
      /\ IsToolCompletion(Last(consumed'))
      /\ Selections(consumed) = {})
     => (inv'.pc = "threw" /\ inv'.ui.slots = inv.ui.slots)]_vars

\* C6: a tool-selection event delivered while a placeholder is open makes
\* the pass fail and leaves the UI stream and the recorded tool unchanged.
C6_ToolConflictFails ==
  [][(/\ Delivers
      /\ IsToolSelection(Last(consumed'))
      /\ PlaceholderOpen)
     => (/\ inv'.pc = "threw"
         /\ inv'.ui.slots = inv.ui.slots
         /\ inv'.selectedToolComponent = inv.selectedToolComponent
         /\ inv'.selectedToolUI = inv.selectedToolUI
         /\ inv'.selectedTool = inv.selectedTool)]_vars

\* C7: a tool-selection event that names a tool without an entry in the
\* tool-component map makes the pass fail, appends nothing to the UI stream
\* and leaves no tool recorded as selected.
C7_UnknownToolFails ==
  [][(/\ Delivers
      /\ IsToolSelection(Last(consumed'))
      /\ SelectedType(Last(consumed')) \notin ToolNames)
     => (/\ inv'.pc = "threw"
         /\ inv'.ui.slots = inv.ui.slots
         /\ ~RecordsTool(inv'))]_vars

RECURSIVE LastCarriedOutput(_)
\* The output of the last event, in source order, that carries an output
LastCarriedOutput(events) ==
  IF events = <<>> THEN Undefined
  ELSE IF "output" \in DOMAIN Last(events).data THEN Last(events).data.output
       ELSE LastCarriedOutput(SubSeq(events, 1, Len(events) - 1))

\* C8 as stated: lastEvent resolves with the output of the last event
\* among those that carried output data.
C8_LastOutputCarryingEvent ==
  inv.lastEvent.state = "fulfilled"
    => inv.lastEvent.value = LastCarriedOutput(consumed)

\* C8, amended: once the loop has ended on the exhausted source, lastEvent
\* resolves with data.output of the last event delivered, whether or not
\* that event carried output data (undefined when it carried none, or when
\* no event was delivered).
C8_LastEventOutput ==
  /\ inv.pc \in {"callbacksDone", "uiDone", "returned"}
       => inv.lastEvent.state = "fulfilled"
  /\ inv.lastEvent.state = "fulfilled"
       => inv.lastEvent.value =
            IF consumed = <<>> THEN Undefined ELSE Output(Last(consumed))

C8_Witness ==
  /\ inv.pc = "returned"
  /\ Len(consumed) >= 2
  /\ "output" \notin DOMAIN Last(consumed).data
  /\ LastCarriedOutput(consumed) # Undefined
  /\ inv.lastEvent.state = "fulfilled"
  /\ inv.lastEvent.value = Undefined

\* C9: lastEvent is pending as long as the loop runs, resolve is called at
\* most once, and once lastEvent is settled no further event is delivered
\* and its value does not change.
C9_ResolvedOnceAfterLoop ==
  /\ [](/\ inv.lastEvent.resolveCalls <= 1
        /\ inv.pc = "loop" => (/\ inv.lastEvent.state = "pending"
                               /\ inv.lastEvent.resolveCalls = 0)
        /\ inv.lastEvent.state = "fulfilled" => inv.k >= 1)
  /\ [][inv.lastEvent.state = "fulfilled"
          => (consumed' = consumed /\ inv'.lastEvent = inv.lastEvent)]_vars

C9_Witness ==
  /\ inv.pc = "returned"
  /\ Len(consumed) >= 2
  /\ inv.lastEvent.state = "fulfilled"
  /\ inv.lastEvent.resolveCalls = 1

\* C10 as stated: lastEvent is not resolved before the UI stream is closed.
C10_ResolveNotBeforeClose ==
  inv.lastEvent.state = "fulfilled" => inv.ui.closed

\* C10, amended: the UI stream is not closed before lastEvent is resolved,
\* the resolve step being the first step after the loop.
C10_CloseNotBeforeResolve ==
  /\ inv.ui.closed => inv.lastEvent.state = "fulfilled"
  /\ (inv.k >= 2 /\ inv.pc # "threw") => inv.lastEvent.state = "fulfilled"

C10_Witness ==
  /\ inv.lastEvent.state = "fulfilled"
  /\ ~inv.ui.closed
  /\ inv.pc = "uiDone"
  /\ consumed # <<>>

-----------------------------------------------------------------------------
\* C11: when the source iterator has thrown, the text streams and the UI
\* stream are closed and lastEvent is resolved with an empty value.
C11_ProducerFailureCleansUp ==
  inv.err = "ProducerError"
    => /\ inv.ui.closed
       /\ AllTextStreamsClosed
       /\ inv.lastEvent.state = "fulfilled"
       /\ inv.lastEvent.value = Undefined

RECURSIVE ConcatChunksOf(_, _)
\* The contents of the token chunks of one run, in order
ConcatChunksOf(events, run_id) ==
  IF events = <<>> THEN ""
  ELSE LET rest == ConcatChunksOf(SubSeq(events, 1, Len(events) - 1), run_id)
           e == Last(events)
       IN  IF IsTokenChunk(e) /\ e.run_id = run_id
           THEN rest \o e.data.chunk.content.v
           ELSE rest

RunsWithChunks == {consumed[i].run_id : i \in Chunks(consumed)}

\* C12: in the first definition, however the token chunks of several runs
\* interleave, each run with a chunk has exactly one text stream, shown by
\* exactly one fragment of the UI stream, and the stream holds the
\* concatenation of the chunks of that run alone, in arrival order.
C12_PerRunStreams ==
  impl = 1
    => /\ DOMAIN inv.callbacks = RunsWithChunks
       /\ Cardinality(TextSlots) = Cardinality(RunsWithChunks)
       /\ \A r \in RunsWithChunks :
             /\ Cardinality({n \in TextSlots : inv.ui.slots[n] = AIMessage(r)})
                  = 1
             /\ inv.callbacks[r].value = ConcatChunksOf(consumed, r)

C12_Witness ==
  /\ impl = 1
  /\ \E i, j, k \in Chunks(consumed) :
        /\ i < j /\ j < k
        /\ consumed[i].run_id = "a"
        /\ consumed[j].run_id = "b"
        /\ consumed[k].run_id = "a"
  /\ inv.callbacks["a"].value = "Hello"
  /\ inv.callbacks["b"].value = "lo"
  /\ Len(inv.ui.slots) = 2

Min(S) == CHOOSE x \in S : \A y \in S : x <= y

\* The events that can have caused a slot of the first definition's UI
\* stream: the tool selections for a tool slot, the chunks of its run for a
\* text slot.
Causes(slot) ==
  IF slot.t = "streamableUI" THEN Selections(consumed)
  ELSE IF ShowsComponent(slot, {"AIMessage"})
       THEN {i \in Chunks(consumed) : consumed[i].run_id = slot.props.run_id}
       ELSE {}

\* C13: in the first definition, every fragment of the UI stream was caused
\* by a delivered event (a text stream by the first chunk of its run, the
\* placeholder by the first tool selection) and the fragments stand in the
\* source order of these events.
C13_SinkOrder ==
  impl = 1
    => \A n \in 1..Len(inv.ui.slots) :
          /\ Causes(inv.ui.slots[n]) # {}
          /\ \A m \in 1..Len(inv.ui.slots) :
                n < m => Min(Causes(inv.ui.slots[n]))
                           < Min(Causes(inv.ui.slots[m]))

C13_Witness ==
  /\ impl = 1
  /\ Len(inv.ui.slots) = 3
  /\ inv.ui.slots[1] = AIMessage("b")
  /\ inv.ui.slots[2].t = "streamableUI"
  /\ inv.ui.slots[3] = AIMessage("a")

LoadingComponents == {TOOL_COMPONENT_MAP[tool].loading : tool \in ToolNames}

\* The placeholders created in the UI stream
PlaceholderSlots ==
  {n \in 1..Len(inv.ui.slots) :
     \/ inv.ui.slots[n].t = "streamableUI"
     \/ /\ "component" \in DOMAIN inv.ui.slots[n]
        /\ inv.ui.slots[n].component \in LoadingComponents}

\* C14: at most one tool placeholder is created in a pass, so at most one
\* is open in any state.
C14_AtMostOnePlaceholder == Cardinality(PlaceholderSlots) <= 1

\* A mapped tool was selected and a completion came after it.
PlaceholderFinalized ==
  \E i \in Selections(consumed) :
     /\ SelectedType(consumed[i]) \in ToolNames
     /\ \E j \in Completions(consumed) : j > i

\* C15: the tool-completion event that finalizes the open placeholder
\* clears the record of the selected tool, and a tool-completion event
\* delivered after the placeholder was finalized makes the pass fail and
\* changes nothing in the UI stream.
C15_FinalizeClearsRecord ==
  [][(Delivers /\ IsToolCompletion(Last(consumed')))
     => /\ PlaceholderOpen => ~RecordsTool(inv')
        /\ PlaceholderFinalized
             => (inv'.pc = "threw" /\ inv'.ui.slots = inv.ui.slots)]_vars

\* C16: in the first definition the tool slot shows, once closed, the final
\* component of the tool whose loading component opened it, given the
\* tool_result of the first completion event after the selection; until
\* then it shows that tool's loading component.
C16_FinalFromSameTool ==
  impl = 1
    => \A n \in 1..Len(inv.ui.slots) :
          inv.ui.slots[n].t = "streamableUI"
            => /\ Selections(consumed) # {}
               /\ LET i == Min(Selections(consumed))
                      tool == SelectedType(consumed[i])
                      later == {j \in Completions(consumed) : j > i}
                  IN  /\ tool \in ToolNames
                      /\ inv.ui.slots[n].closed = (later # {})
                      /\ inv.ui.slots[n].node =
                           IF later = {} THEN Loading(TOOL_COMPONENT_MAP[tool])
                           ELSE Final(TOOL_COMPONENT_MAP[tool],
                                      Output(consumed[Min(later)]).tool_result)

C16_Witness ==
  /\ impl = 1
  /\ Cardinality(Selections(consumed)) = 2
  /\ \E n \in 1..Len(inv.ui.slots) :
        /\ inv.ui.slots[n].t = "streamableUI"
        /\ inv.ui.slots[n].closed
        /\ inv.ui.slots[n].node =
             Element("CurrentWeather", [t |-> "object", payload |-> 31])

\* An invoke_model end event with a plain-text result and no tool call
IsPlainTextResult(streamEvent) ==
  /\ IsNodeEnd(streamEvent, "invoke_model")
  /\ ~IsToolSelection(streamEvent)
  /\ "result" \in DOMAIN Output(streamEvent)
  /\ Output(streamEvent).result.t = "string"

\* This step routes the result of the delivered event to the text stream of
\* its run, which it creates and shows in the UI stream when there is none.
RoutesResult ==
  LET e == Last(consumed')
      r == e.run_id
      known == r \in DOMAIN inv.callbacks
  IN  /\ r \in DOMAIN inv'.callbacks
      /\ inv'.callbacks[r].value =
           (IF known THEN inv.callbacks[r].value ELSE "") \o Output(e).result.v
      /\ inv'.ui.slots =
           IF known THEN inv.ui.slots ELSE Append(inv.ui.slots, AIMessage(r))

\* C17 as stated: either definition routes a plain-text result to the text
\* stream of the event's run.
C17_ResultRoutedToRunStream ==
  [][(Delivers /\ IsPlainTextResult(Last(consumed'))) => RoutesResult]_vars

\* C17, amended: the second definition routes a plain-text result to the
\* text stream of the event's run; the first definition leaves the UI
\* stream and the text streams as they are.
C17_ResultRoutedBySecondDefinition ==
  [][(Delivers /\ IsPlainTextResult(Last(consumed')))
     => IF impl = 2 THEN RoutesResult
        ELSE inv'.ui = inv.ui /\ inv'.callbacks = inv.callbacks]_vars

C17_Witness ==
  /\ impl = 2
  /\ Cardinality({i \in 1..Len(consumed) : IsPlainTextResult(consumed[i])}) = 2
  /\ "a" \in DOMAIN inv.callbacks
  /\ inv.callbacks["a"].value = "HiHi"
  /\ inv.ui.slots = <<AIMessage("a")>>

\* An event that is no invoke_model end, no invoke_tools end and no token
\* chunk of the chat model
IsOtherKind(streamEvent) ==
  /\ ~(/\ EventType(streamEvent.event) = "end"
       /\ streamEvent.name \in {"invoke_model", "invoke_tools"})
  /\ streamEvent.event # <<"on", "chat", "model", "stream">>

\* C18: an event of another kind does not stop the pass and changes
\* nothing but lastEventValue, which becomes that event.
C18_OtherEventsIgnored ==
  [][(Delivers /\ IsOtherKind(Last(consumed')))
     => inv' = [inv EXCEPT !.lastEventValue = Last(consumed')]]_vars

C18_Witness ==
  /\ inv.pc = "loop"
  /\ Truthy(inv.lastEventValue)
  /\ IsOtherKind(inv.lastEventValue)
  /\ "output" \notin DOMAIN inv.lastEventValue.data
  /\ PlaceholderOpen
  /\ Len(inv.ui.slots) >= 2

\* C19: no append is attempted on the UI stream or on a text stream after
\* its done(): the closed UI stream keeps its fragments and a closed text
\* stream keeps its content.
C19_NoAppendAfterDone ==
  /\ [](inv.err \notin {".append(): UI stream is already closed.",
                        ".append(): Value stream is already closed."})
  /\ [][/\ inv.ui.closed => inv'.ui.slots = inv.ui.slots
        /\ \A r \in DOMAIN inv.callbacks :
              inv.callbacks[r].closed
                => (/\ r \in DOMAIN inv'.callbacks
                    /\ inv'.callbacks[r] = inv.callbacks[r])]_vars

C19_Witness ==
  /\ inv.pc = "returned"
  /\ inv.ui.closed
  /\ Len(inv.ui.slots) >= 2
  /\ DOMAIN inv.callbacks # {}
  /\ AllTextStreamsClosed

RECURSIVE RunLoop(_, _)
\* The loop of one invocation over the events of its source
RunLoop(s, events) ==
  IF events = <<>> \/ s.pc # "loop" THEN s
  ELSE RunLoop(LoopBody(s, Head(events)), Tail(events))

RECURSIVE RunEpilogue(_, _)
RunEpilogue(s, statements) ==
  IF statements = 0 THEN s ELSE RunEpilogue(EpilogueStep(s), statements - 1)

\* The state of an invocation that runs alone
RunAlone(events, ended, statements) ==
  LET looped == RunLoop(NewInvocation, events)
  IN  CASE ended = "no" -> looped
        [] ended = "failed" -> Throw(looped, "ProducerError")
        [] ended = "exhausted" -> RunEpilogue(Exhaust(looped), statements)

\* C20: of two invocations at the same time, however their steps
\* interleave, each has the UI stream, text streams, tool placeholder and
\* lastEvent that it has when it runs alone on the events of its own source.
C20_InvocationsIsolated ==
  \A i \in Invocations :
     pair[i].inv =
       RunAlone(pair[i].consumed, pair[i].ended, pair[i].statements)

\* Both invocations are under way on sources that use the same tool and
\* the same run id: one is in its loop, the other in its epilogue, and each
\* has its own placeholder and its own text stream of that run.
C20_Witness ==
  /\ pair[1].inv.pc = "loop"
  /\ pair[2].inv.pc = "callbacksDone"
  /\ \A i \in Invocations :
        /\ Len(pair[i].consumed) = 2
        /\ \E n \in 1..2 : IsToolSelection(pair[i].consumed[n])
        /\ \E n \in 1..2 : IsTokenChunk(pair[i].consumed[n])
        /\ Len(pair[i].inv.ui.slots) = 2
        /\ "a" \in DOMAIN pair[i].inv.callbacks
        /\ pair[i].inv.callbacks["a"].value = "Hel"

\* No event delivered so far carried output data.
NoOutputCarried ==
  \A i \in 1..Len(consumed) : "output" \notin DOMAIN consumed[i].data

\* C21: when the source is exhausted and no event carried output data, the
\* pass does not fail, and once the statement after the loop has run
\* lastEvent is fulfilled, by one resolve, with undefined.
C21_NoOutputResolvesUndefined ==
  (inv.k >= 1 /\ NoOutputCarried)
    => /\ inv.pc # "threw"
       /\ inv.k >= 2
            => /\ inv.lastEvent.state = "fulfilled"
               /\ inv.lastEvent.value = Undefined
               /\ inv.lastEvent.resolveCalls = 1

C21_Witness ==
  /\ impl = 1
  /\ inv.pc = "returned"
  /\ Len(consumed) = 2
  /\ \A i \in 1..2 : IsTokenChunk(consumed[i])
  /\ inv.ui.slots = <<AIMessage("a")>>
  /\ inv.callbacks["a"].value = "Hello"
  /\ inv.lastEvent.state = "fulfilled"
  /\ inv.lastEvent.value = Undefined

IsPrefix(s, t) == Len(s) <= Len(t) /\ SubSeq(t, 1, Len(s)) = s

\* C23: the step in which the pass fails keeps every fragment the UI
\* stream held, in place and with its content, and the failed pass changes
\* nothing afterwards.
C23_FailureKeepsFragments ==
  [][/\ inv'.pc = "threw" => IsPrefix(inv.ui.slots, inv'.ui.slots)
     /\ inv.pc = "threw" => inv'.ui = inv.ui]_vars

C23_Witness ==
  /\ inv.pc = "threw"
  /\ inv.err # "ProducerError"
  /\ Len(inv.ui.slots) >= 2
  /\ \E n \in 1..Len(inv.ui.slots) : inv.ui.slots[n].t = "streamableUI"
  /\ TextSlots # {}

\* C24: once the UI stream is closed, every streamable the pass created in
\* it, the tool placeholder's slot included, is closed.
C24_PlaceholderClosedWithSink ==
  inv.ui.closed
    => \A n \in 1..Len(inv.ui.slots) :
          inv.ui.slots[n].t = "streamableUI" => inv.ui.slots[n].closed

\* C22: once the consumer has gone away no further event is taken from the
\* source, and the pass ends with the UI stream, the text streams and the
\* tool placeholder closed.
C22_AbandonStopsPass ==
  [][inv.consumerGone
       => /\ ~Delivers
          /\ inv'.pc \in {"returned", "threw"}
               => /\ inv'.ui.closed
                  /\ \A r \in DOMAIN inv'.callbacks : inv'.callbacks[r].closed
                  /\ \A n \in 1..Len(inv'.ui.slots) :
                        inv'.ui.slots[n].t = "streamableUI"
                          => inv'.ui.slots[n].closed]_vars

\* How often a node has run
Runs(node) == Cardinality({n \in 1..Len(graph.ran) : graph.ran[n] = node})

\* invokeModel has answered with text (not empty) and no tool call.
PlainTextAnswer ==
  /\ Runs("invokeModel") = 1
  /\ ~Truthy(graph.toolCall)
  /\ Truthy(graph.result)

\* What C25 and its amendment share: the first node is invokeModel, each
\* node runs at most once, invokeTools only after a tool call, and a
\* plain-text answer leads to END without invokeTools.
GraphShape ==
  /\ graph.ran # <<>> => graph.ran[1] = "invokeModel"
  /\ Runs("invokeModel") <= 1
  /\ Runs("invokeTools") <= 1
  /\ Runs("invokeTools") = 1 => Truthy(graph.toolCall)
  /\ PlainTextAnswer
       => /\ graph.pc \in {"invokeToolsOrReturn", "END"}
          /\ Runs("invokeTools") = 0
  /\ graph.pc = "END"
       => \/ PlainTextAnswer
          \/ /\ graph.ran = <<"invokeModel", "invokeTools">>
             /\ Truthy(graph.toolResult)

IsChartEnd(langGraphEvent, name) ==
  /\ langGraphEvent # Undefined
  /\ langGraphEvent.event = "on_chain_end"
  /\ langGraphEvent.name = name

\* Both a generate_chart_type and a generate_data_display_format chain-end
\* event have been handled.
BothHandled ==
  /\ \E i \in 1..Len(filterGraph.handled) :
        IsChartEnd(filterGraph.handled[i], "generate_chart_type")
  /\ \E i \in 1..Len(filterGraph.handled) :
        IsChartEnd(filterGraph.handled[i], "generate_data_display_format")

MustBeSet == "Chart type and display format must be set before filtering data"

Overlap ==
  /\ Len(chat.turns) = 2
  /\ chat.turns[2].newElements # <<>>
       => chat.turns[2].newElements[1].ui # 1

\* C27: when two onSubmit calls overlap and both have set the elements,
\* the elements hold the element of both turns.
C27_NoElementLost ==
  (/\ Overlap
   /\ \A turn \in 1..2 : chat.turns[turn].pc # "agent")
    => \A turn \in 1..2 :
          \E n \in 1..Len(chat.elements) : chat.elements[n].ui = turn

\* C28: for every turn whose lastEvent has resolved, the history holds the
\* entry ["human", input] of that turn exactly once, and every "ai" entry
\* directly follows a "human" entry.
C28_HumanEntryOnce ==
  /\ \A turn \in 1..Len(chat.turns) :
        chat.turns[turn].pc \in {"done", "threw"}
          => Cardinality({n \in 1..Len(chat.history) :
                            chat.history[n] =
                              HumanEntry(chat.turns[turn].input)}) = 1
  /\ \A n \in 1..Len(chat.history) :
        chat.history[n].role = "ai"
          => (n > 1 /\ chat.history[n - 1].role = "human")

\* C29: for a filter whose only set field is discount, filterOrders
\* returns, in their input order, the orders that have a discount when
\* discount is true, and the orders that have none when it is false.
C29_DiscountFilter ==
  (/\ filters.fn = "filterOrders"
   /\ filters.pc = "returned"
   /\ filters.selectedFilters.discount # Undefined
   /\ filters.selectedFilters =
        [NoFilter EXCEPT !.discount = filters.selectedFilters.discount])
    => filters.result =
         SelectSeq(filters.orders,
                   LAMBDA order :
                     (order.discount # Undefined)
                       = filters.selectedFilters.discount.v)

\* C30: constructStatusPieChartProps returns one slice for each status of
\* the orders, and the value of a slice is the number of orders with that
\* status.
C30_SliceCountsOrders ==
  (filters.fn = "constructStatusPieChartProps" /\ filters.pc = "returned")
    => LET data == filters.result.series[1].data
           Statuses == {filters.orders[n].status : n \in 1..Len(filters.orders)}
       IN  /\ Len(data) = Cardinality(Statuses)
           /\ {data[n].label : n \in 1..Len(data)} = Statuses
           /\ \A n \in 1..Len(data) :
                 data[n].value =
                   Cardinality({k \in 1..Len(filters.orders) :
                                  filters.orders[k].status = data[n].label})

====
